---- MODULE Spec2Model ----
(***************************************************************************)
(* Model of the resilient telemetry-export wrapper of                      *)
(* acelinkio/python-otel-example:                                          *)
(*   - SafeOTLPLogExporter (src/main.py) and SafeOTLPExporter              *)
(*     (src/test.py): the backoff gate around an inner exporter;           *)
(*   - _start_otlp_prober / _is_endpoint_reachable (src/main.py): the      *)
(*     background prober that attaches the gate once the collector is      *)
(*     reachable.                                                          *)
(* Time is in whole seconds; the floats of the source only ever hold       *)
(* sums and doublings of the integer inputs drawn here, which are exact.   *)
(***************************************************************************)
EXTENDS Integers, FiniteSets, Sequences, TLC

\* ------------------------------------------------------------------ bounds
NumThreads == 2
MaxTime == 2
LiveMaxTime == 4          \* last clock value of the fair specification
SeqMaxTime == 16

Threads == 1..NumThreads
NoThread == 0

\* initial_backoff / max_backoff pairs given to the constructor; the callers
\* of the repository pass initial_backoff > 0 and max_backoff >= initial_backoff
Backoffs == {<<1, 3>>, <<2, 2>>}

Variants == {"main", "test"}

Min(a, b) == IF a <= b THEN a ELSE b

RECURSIVE Pow2(_)
Pow2(n) == IF n <= 0 THEN 1 ELSE 2 * Pow2(n - 1)

VARIABLES
    variant,          \* which wrapper: SafeOTLPLogExporter (main) / SafeOTLPExporter (test)
    inner_attrs,      \* optional operations the inner exporter has
    backoff_initial,  \* self._backoff_initial
    max_backoff,      \* self._max_backoff
    backoff,          \* self._backoff
    next_try,         \* self._next_try
    reported,         \* self._reported
    lock,             \* holder of self._lock, NoThread when free
    clock,            \* time.time()
    pc,               \* per thread: position inside export / shutdown / force_flush
    now,              \* per thread: the local `now` of export
    seen,             \* per thread: the value of self._reported read by _report_once
    last,             \* the most recent return: its value and the branch it came from
    reports,          \* number of one-time failure reports printed to stderr
    retry_note,       \* wait_seconds of the last "will retry in" line, 0 if none
    failRun           \* history: failures recorded since construction or the last reset

gateVars == <<variant, inner_attrs, backoff_initial, max_backoff, backoff, next_try,
              reported, lock, clock, pc, now, seen, last, reports, retry_note,
              failRun>>

VARIABLES
    endpoint,         \* urlparse(endpoint): [scheme, port], port <<>> when the URL has none
    p_initial,        \* initial_backoff of _start_otlp_prober
    p_max,            \* max_backoff of _start_otlp_prober
    start_result,     \* what _start_otlp_prober did for its caller
    p_pc,             \* position of the otlp-prober thread
    attempt,          \* _probe: attempt
    p_backoff,        \* _probe: backoff
    checks,           \* calls of _is_endpoint_reachable
    connects,         \* calls of socket.create_connection
    constructed,      \* SafeOTLPLogExporter instances constructed
    reg_calls,        \* calls of provider.add_log_record_processor
    registered,       \* calls of provider.add_log_record_processor that returned
    unreach_notes,    \* "not reachable (attempt n)" lines printed
    fail_notes,       \* "Failed to attach OTLP exporter" lines printed
    error_notes,      \* "OTLP prober error" lines printed
    attached_note,    \* n of the "attached ... (after n attempts)" line, 0 if none
    sleeps,           \* calls of _time.sleep
    last_sleep,       \* argument of the last _time.sleep, 0 if none
    first_reach       \* history: attempt of the first reachable check, 0 if none

proberVars == <<endpoint, p_initial, p_max, start_result, p_pc, attempt, p_backoff,
                checks, connects, constructed, reg_calls, registered, unreach_notes,
                fail_notes, error_notes, attached_note, sleeps, last_sleep, first_reach>>

VARIABLES
    r_variant,        \* which resolution: main.py, test.py or new.py
    override,         \* exporter_cls argument, NoOverride when None
    proto_env,        \* os.getenv("OTEL_EXPORTER_OTLP_PROTOCOL", ""), as characters
    endpoint_env,     \* the endpoint: <<>> when unset, else <<its URL scheme>>
    grpc_avail,       \* signals whose gRPC exporter module can be imported
    r_pc,             \* "start" before resolution, "done" after
    resolved          \* exporter class per signal, warning printed, error raised

resolveVars == <<r_variant, override, proto_env, endpoint_env, grpc_avail, r_pc, resolved>>

vars == <<gateVars, proberVars, resolveVars>>

\* ------------------------------------------------------- pure helpers

\* mutant of InBackoffWindow: once a failure has set _next_try the gate stays shut
InBackoffWindowSticky(n, nt) == nt > 0

\* mutant of InBackoffWindow: the comparison the wrong way round
InBackoffWindowReversed(n, nt) == nt < n

\* export: `if now < self._next_try` (the backoff gate)
InBackoffWindow(n, nt) == n < nt

\* mutant of NextBackoff: the cap applied before the doubling
NextBackoffCapFirst(b, mx) == Min(b, mx) * 2

\* mutant of NextBackoff: the cap left out
NextBackoffNoCap(b, mx) == b * 2

\* export: `self._backoff = min(self._backoff * 2.0, self._max_backoff)`
NextBackoff(b, mx) == Min(b * 2, mx)

\* mutant of NextTry: the backoff doubled before the window is computed
NextTryAfterDoubling(t, b) == t + 2 * b

\* export: `self._next_try = time.time() + self._backoff`
NextTry(t, b) == t + b

\* ------------------------------------------------------- construction

\* __init__: the state right after construction
GateInit(pairs) ==
    /\ variant \in Variants
    /\ inner_attrs \in {{}, {"shutdown", "force_flush"}}
    /\ \E b \in pairs : backoff_initial = b[1] /\ max_backoff = b[2]
    /\ backoff = backoff_initial
    /\ next_try = 0
    /\ reported = FALSE
    /\ lock = NoThread
    /\ clock = 0
    /\ pc = [t \in Threads |-> "idle"]
    /\ now = [t \in Threads |-> 0]
    /\ seen = [t \in Threads |-> FALSE]
    /\ last = [value |-> "none", branch |-> "none"]
    /\ reports = 0
    /\ retry_note = 0
    /\ failRun = 0

config == <<variant, inner_attrs, backoff_initial, max_backoff>>

\* a call returns: back to idle with its return value and the branch taken
Return(t, value, branch) ==
    /\ pc' = [pc EXCEPT ![t] = "idle"]
    /\ last' = [value |-> value, branch |-> branch]
    /\ now' = [now EXCEPT ![t] = 0]

\* the clock advances (time.time() is read by export, never set)
Tick(limit) ==
    /\ UNCHANGED <<proberVars, resolveVars>>
    /\ clock < limit
    /\ clock' = clock + 1
    /\ UNCHANGED <<config, backoff, next_try, reported, lock, pc, now, seen, last,
                   reports, retry_note, failRun>>

\* ------------------------------------------------------------- export

\* export: `now = time.time()`
ExportStart(t) ==
    /\ UNCHANGED <<proberVars, resolveVars>>
    /\ pc[t] = "idle"
    /\ pc' = [pc EXCEPT ![t] = "gate"]
    /\ now' = [now EXCEPT ![t] = clock]
    /\ UNCHANGED <<config, backoff, next_try, reported, lock, clock, seen, last,
                   reports, retry_note, failRun>>

\* mutant of ExportGate: a suppressed call advances the backoff as a failure does
ExportGateAdvancesBackoff(t) ==
    /\ UNCHANGED <<proberVars, resolveVars>>
    /\ pc[t] = "gate"
    /\ lock = NoThread
    /\ IF InBackoffWindow(now[t], next_try)
         THEN /\ Return(t, "None", "suppressed")
              /\ backoff' = NextBackoff(backoff, max_backoff)
         ELSE /\ pc' = [pc EXCEPT ![t] = "call"]
              /\ UNCHANGED <<now, last, backoff>>
    /\ UNCHANGED <<config, next_try, reported, lock, clock, seen,
                   reports, retry_note, failRun>>

\* mutant of ExportGate: the lock taken for the gate check is kept over the
\* call of the inner exporter
ExportGateHoldsLock(t) ==
    /\ UNCHANGED <<proberVars, resolveVars>>
    /\ pc[t] = "gate"
    /\ lock = NoThread
    /\ IF InBackoffWindow(now[t], next_try)
         THEN Return(t, "None", "suppressed") /\ UNCHANGED lock
         ELSE /\ pc' = [pc EXCEPT ![t] = "call"]
              /\ lock' = t
              /\ UNCHANGED <<now, last>>
    /\ UNCHANGED <<config, backoff, next_try, reported, clock, seen,
                   reports, retry_note, failRun>>

\* export: `with self._lock: if now < self._next_try: return None`
ExportGate(t) ==
    /\ UNCHANGED <<proberVars, resolveVars>>
    /\ pc[t] = "gate"
    /\ lock = NoThread
    /\ IF InBackoffWindow(now[t], next_try)
         THEN Return(t, "None", "suppressed")
         ELSE /\ pc' = [pc EXCEPT ![t] = "call"]
              /\ UNCHANGED <<now, last>>
    /\ UNCHANGED <<config, backoff, next_try, reported, lock, clock, seen,
                   reports, retry_note, failRun>>

\* mutant of InnerExportRaises: no except block, the exception reaches the caller
InnerExportPropagates(t) ==
    /\ UNCHANGED <<proberVars, resolveVars>>
    /\ pc[t] = "call"
    /\ Return(t, "raise", "propagated")
    /\ UNCHANGED <<config, backoff, next_try, reported, lock, clock, seen,
                   reports, retry_note, failRun>>

\* export: `self._inner.export(records)` raises; control enters the except block
InnerExportRaises(t) ==
    /\ UNCHANGED <<proberVars, resolveVars>>
    /\ pc[t] = "call"
    /\ pc' = [pc EXCEPT ![t] = "fail"]
    /\ now' = [now EXCEPT ![t] = 0]
    /\ UNCHANGED <<config, backoff, next_try, reported, lock, clock, seen, last,
                   reports, retry_note, failRun>>

\* export: `self._inner.export(records)` returns a result.  main.py goes on to
\* the else block; test.py returns the result at once
InnerExportReturns(t) ==
    /\ UNCHANGED <<proberVars, resolveVars>>
    /\ pc[t] = "call"
    /\ IF variant = "main"
         THEN /\ pc' = [pc EXCEPT ![t] = "succ"]
              /\ now' = [now EXCEPT ![t] = 0]
              /\ UNCHANGED last
         ELSE Return(t, "result", "ok")
    /\ UNCHANGED <<config, backoff, next_try, reported, lock, clock, seen,
                   reports, retry_note, failRun>>

\* mutant of ExportFailLock: the except block is entered without waiting for
\* the lock to be free
ExportFailLockNotExclusive(t) ==
    /\ UNCHANGED <<proberVars, resolveVars>>
    /\ pc[t] = "fail"
    /\ lock' = t
    /\ seen' = [seen EXCEPT ![t] = reported]
    /\ pc' = [pc EXCEPT ![t] = "fail_upd"]
    /\ UNCHANGED <<config, backoff, next_try, reported, clock, now, last,
                   reports, retry_note, failRun>>

\* export, except block: `with self._lock:` is entered and _report_once reads
\* self._reported
ExportFailLock(t) ==
    /\ UNCHANGED <<proberVars, resolveVars>>
    /\ pc[t] = "fail"
    /\ lock = NoThread
    /\ lock' = t
    /\ seen' = [seen EXCEPT ![t] = reported]
    /\ pc' = [pc EXCEPT ![t] = "fail_upd"]
    /\ UNCHANGED <<config, backoff, next_try, reported, clock, now, last,
                   reports, retry_note, failRun>>

\* export, except block: the rest of _report_once, _report_retry, the new
\* _next_try and _backoff, the lock released, `return None`
ExportFailUpdate(t) ==
    /\ UNCHANGED <<proberVars, resolveVars>>
    /\ pc[t] = "fail_upd"
    /\ lock = t
    /\ IF seen[t]
         THEN UNCHANGED <<reported, reports>>
         ELSE /\ reported' = TRUE
              /\ reports' = reports + 1
    /\ retry_note' = backoff
    /\ next_try' = NextTry(clock, backoff)
    /\ backoff' = NextBackoff(backoff, max_backoff)
    /\ failRun' = failRun + 1
    /\ lock' = NoThread
    /\ seen' = [seen EXCEPT ![t] = FALSE]
    /\ Return(t, "None", "failed")
    /\ UNCHANGED <<config, clock>>

\* mutant of ExportSuccess: the reset makes the gate eligible from now on
\* instead of setting _next_try to 0.0
ExportSuccessEligibleNow(t) ==
    /\ UNCHANGED <<proberVars, resolveVars>>
    /\ pc[t] = "succ"
    /\ lock = NoThread
    /\ backoff' = backoff_initial
    /\ next_try' = clock
    /\ failRun' = 0
    /\ Return(t, "result", "ok")
    /\ UNCHANGED <<config, reported, lock, clock, seen, reports, retry_note>>

\* export, else block (main.py only): reset under the lock, `return result`
ExportSuccess(t) ==
    /\ UNCHANGED <<proberVars, resolveVars>>
    /\ pc[t] = "succ"
    /\ lock = NoThread
    /\ backoff' = backoff_initial
    /\ next_try' = 0
    /\ failRun' = 0
    /\ Return(t, "result", "ok")
    /\ UNCHANGED <<config, reported, lock, clock, seen, reports, retry_note>>

\* ------------------------------------------------ shutdown / force_flush

\* _report_once called outside the lock: `if self._reported: return`
ReportOnceRead(t, value, branch, at) ==
    IF reported
      THEN /\ Return(t, value, branch)
           /\ UNCHANGED seen
      ELSE /\ pc' = [pc EXCEPT ![t] = at]
           /\ seen' = [seen EXCEPT ![t] = FALSE]
           /\ UNCHANGED <<now, last>>

\* mutant of CaughtValue: the except blocks re-raise
CaughtValueReraised(op) == "raise"

\* what the except blocks return: shutdown falls off its end (None),
\* force_flush has `return False`
CaughtValue(op) == IF op = "sd" THEN "None" ELSE "False"

\* what the getattr defaults return: `lambda: None`, `lambda *a, **k: True`
DefaultValue(op) == IF op = "sd" THEN "None" ELSE "True"

\* what the delegate can return when it has the operation and does not raise
DelegateValues(op) == IF op = "sd" THEN {"None"} ELSE {"True", "False"}

\* the name of the inner exporter's operation
InnerOp(op) == IF op = "sd" THEN "shutdown" ELSE "force_flush"

\* shutdown / force_flush: the try block and, when the delegate raises, the
\* except block up to _report_once's read of self._reported
Delegate(t, op) ==
    \/ /\ InnerOp(op) \notin inner_attrs
       /\ Return(t, DefaultValue(op), op \o "_absent")
       /\ UNCHANGED seen
    \/ /\ InnerOp(op) \in inner_attrs
       /\ \E v \in DelegateValues(op) : Return(t, v, op \o "_delegated")
       /\ UNCHANGED seen
    \/ /\ InnerOp(op) \in inner_attrs
       /\ ReportOnceRead(t, CaughtValue(op), op \o "_caught", op \o "_rep")

\* mutant of Shutdown: shutdown also reopens the gate
ShutdownResetsGate(t) ==
    /\ UNCHANGED <<proberVars, resolveVars>>
    /\ pc[t] = "idle"
    /\ Delegate(t, "sd")
    /\ backoff' = backoff_initial
    /\ next_try' = 0
    /\ UNCHANGED <<config, reported, lock, clock, reports, retry_note, failRun>>

\* shutdown: the delegate (or the `lambda: None` default) is called
Shutdown(t) ==
    /\ UNCHANGED <<proberVars, resolveVars>>
    /\ pc[t] = "idle"
    /\ Delegate(t, "sd")
    /\ UNCHANGED <<config, backoff, next_try, reported, lock, clock,
                   reports, retry_note, failRun>>

\* force_flush: the delegate (or the `lambda *a, **k: True` default) is called
ForceFlush(t) ==
    /\ UNCHANGED <<proberVars, resolveVars>>
    /\ pc[t] = "idle"
    /\ Delegate(t, "ff")
    /\ UNCHANGED <<config, backoff, next_try, reported, lock, clock,
                   reports, retry_note, failRun>>

\* _report_once outside the lock: `self._reported = True` and the prints, then
\* shutdown returns None / force_flush returns False
ReportOnceSet(t) ==
    /\ UNCHANGED <<proberVars, resolveVars>>
    /\ pc[t] \in {"sd_rep", "ff_rep"}
    /\ reported' = TRUE
    /\ reports' = reports + 1
    /\ IF pc[t] = "sd_rep"
         THEN Return(t, CaughtValue("sd"), "sd_caught")
         ELSE Return(t, CaughtValue("ff"), "ff_caught")
    /\ UNCHANGED <<config, backoff, next_try, lock, clock, seen, retry_note, failRun>>

\* ---------------------------------------------------------------- prober

MaxAttempts == 5

\* `4318 if parsed.scheme in ("http", "https")`
DefaultHttpPort == 4318
\* urlparse(...).port raises ValueError above this port
MaxPort == 65535

Schemes == {"http", "https", "grpc", ""}
Ports == {<<>>, <<0>>, <<4318>>, <<70000>>}
Endpoints == [scheme : Schemes, port : Ports]

\* initial_backoff / max_backoff pairs given to _start_otlp_prober: its
\* defaults, the values configure_logging passes, and a pair that reaches the cap
ProberBackoffs == {<<5, 300>>, <<2, 300>>, <<1, 4>>}

\* _is_endpoint_reachable: `parsed.port` raises ValueError for a port out of range
PortRaises(ep) == ep.port # <<>> /\ ep.port[1] > MaxPort

\* mutant of DerivedPort: the default port is used whatever the scheme is
DerivedPortAlwaysDefault(ep) ==
    IF ep.port # <<>> /\ ep.port[1] # 0 THEN ep.port ELSE <<DefaultHttpPort>>

\* _is_endpoint_reachable:
\* `port = parsed.port or (4318 if parsed.scheme in ("http", "https") else None)`
DerivedPort(ep) ==
    IF ep.port # <<>> /\ ep.port[1] # 0
      THEN ep.port
      ELSE IF ep.scheme \in {"http", "https"} THEN <<DefaultHttpPort>> ELSE <<>>

\* _is_endpoint_reachable: the results the call can have for an endpoint.
\* "no_port" is the `return False` taken before any connection is tried
ReachResults(ep) ==
    IF PortRaises(ep) THEN {"raise"}
    ELSE IF DerivedPort(ep) = <<>> THEN {"no_port"}
    ELSE {"connected", "refused"}

\* _probe: `backoff = min(backoff * 2.0, max_backoff)`
ProberNextBackoff(b, mx) == Min(b * 2, mx)

\* the provider before _start_otlp_prober is called
ProberInit(eps, pairs) ==
    /\ endpoint \in eps
    /\ \E b \in pairs : p_initial = b[1] /\ p_max = b[2]
    /\ start_result = "not_called"
    /\ p_pc = "unstarted"
    /\ attempt = 0
    /\ p_backoff = 0
    /\ checks = 0
    /\ connects = 0
    /\ constructed = 0
    /\ reg_calls = 0
    /\ registered = 0
    /\ unreach_notes = 0
    /\ fail_notes = 0
    /\ error_notes = 0
    /\ attached_note = 0
    /\ sleeps = 0
    /\ last_sleep = 0
    /\ first_reach = 0

\* mutant of StartProber: the port is validated before the thread is started
StartProberValidatesPort ==
    /\ UNCHANGED <<gateVars, resolveVars>>
    /\ start_result = "not_called"
    /\ IF ~PortRaises(endpoint) /\ DerivedPort(endpoint) = <<>>
         THEN /\ start_result' = "raised"
              /\ UNCHANGED <<p_pc, p_backoff>>
         ELSE /\ start_result' = "returned"
              /\ p_pc' = "loop"
              /\ p_backoff' = p_initial
    /\ attempt' = 0
    /\ UNCHANGED <<endpoint, p_initial, p_max, checks, connects, constructed, reg_calls,
                   registered, unreach_notes, fail_notes, error_notes, attached_note,
                   sleeps, last_sleep, first_reach>>

\* _start_otlp_prober: the thread is created and started, the function returns;
\* the thread sets `backoff = float(initial_backoff)` and `attempt = 0`
StartProber ==
    /\ UNCHANGED <<gateVars, resolveVars>>
    /\ start_result = "not_called"
    /\ start_result' = "returned"
    /\ p_pc' = "loop"
    /\ p_backoff' = p_initial
    /\ attempt' = 0
    /\ UNCHANGED <<endpoint, p_initial, p_max, checks, connects, constructed, reg_calls,
                   registered, unreach_notes, fail_notes, error_notes, attached_note,
                   sleeps, last_sleep, first_reach>>

\* _probe, one pass of `while True` up to the result of _is_endpoint_reachable:
\* the not-reachable line, the prober-error line, or on to the attach
Probe ==
    /\ UNCHANGED <<gateVars, resolveVars>>
    /\ p_pc = "loop"
    /\ attempt < MaxAttempts
    /\ attempt' = attempt + 1
    /\ checks' = checks + 1
    /\ \E r \in ReachResults(endpoint) :
         /\ connects' = IF r \in {"connected", "refused"} THEN connects + 1 ELSE connects
         /\ p_pc' = IF r = "connected" THEN "attach" ELSE "sleep"
         /\ unreach_notes' = IF r \in {"refused", "no_port"}
                               THEN unreach_notes + 1 ELSE unreach_notes
         /\ error_notes' = IF r = "raise" THEN error_notes + 1 ELSE error_notes
         /\ first_reach' = IF r = "connected" /\ first_reach = 0
                             THEN attempt + 1 ELSE first_reach
    /\ UNCHANGED <<endpoint, p_initial, p_max, start_result, p_backoff, constructed,
                   reg_calls, registered, fail_notes, attached_note, sleeps, last_sleep>>

\* how the inner try block of _probe can raise: in SafeOTLPLogExporter(...),
\* in BatchLogRecordProcessor(exporter), or in provider.add_log_record_processor
AttachFailures == {"exporter", "processor", "registration"}

\* mutant of AttachRaises: the prober gives up after a failed attach
AttachRaisesGivesUp(f) ==
    /\ UNCHANGED <<gateVars, resolveVars>>
    /\ p_pc = "attach"
    /\ constructed' = IF f = "exporter" THEN constructed ELSE constructed + 1
    /\ reg_calls' = IF f = "registration" THEN reg_calls + 1 ELSE reg_calls
    /\ fail_notes' = fail_notes + 1
    /\ p_pc' = "done"
    /\ UNCHANGED <<endpoint, p_initial, p_max, start_result, attempt, p_backoff, checks,
                   connects, registered, unreach_notes, error_notes, attached_note,
                   sleeps, last_sleep, first_reach>>

\* _probe, inner try block raising: "Failed to attach OTLP exporter", no break
AttachRaises(f) ==
    /\ UNCHANGED <<gateVars, resolveVars>>
    /\ p_pc = "attach"
    /\ constructed' = IF f = "exporter" THEN constructed ELSE constructed + 1
    /\ reg_calls' = IF f = "registration" THEN reg_calls + 1 ELSE reg_calls
    /\ fail_notes' = fail_notes + 1
    /\ p_pc' = "sleep"
    /\ UNCHANGED <<endpoint, p_initial, p_max, start_result, attempt, p_backoff, checks,
                   connects, registered, unreach_notes, error_notes, attached_note,
                   sleeps, last_sleep, first_reach>>

\* mutant of AttachOk: the attempt counted from zero in the attached line
AttachOkZeroBased ==
    /\ UNCHANGED <<gateVars, resolveVars>>
    /\ p_pc = "attach"
    /\ constructed' = constructed + 1
    /\ reg_calls' = reg_calls + 1
    /\ registered' = registered + 1
    /\ attached_note' = attempt - 1
    /\ p_pc' = "done"
    /\ UNCHANGED <<endpoint, p_initial, p_max, start_result, attempt, p_backoff, checks,
                   connects, unreach_notes, fail_notes, error_notes, sleeps, last_sleep,
                   first_reach>>

\* mutant of AttachOk: the `break` left out, the loop goes on after attaching
AttachOkNoBreak ==
    /\ UNCHANGED <<gateVars, resolveVars>>
    /\ p_pc = "attach"
    /\ constructed' = constructed + 1
    /\ reg_calls' = reg_calls + 1
    /\ registered' = registered + 1
    /\ attached_note' = attempt
    /\ p_pc' = "sleep"
    /\ UNCHANGED <<endpoint, p_initial, p_max, start_result, attempt, p_backoff, checks,
                   connects, unreach_notes, fail_notes, error_notes, sleeps, last_sleep,
                   first_reach>>

\* _probe, inner try block completing: exporter built, processor registered,
\* the attached line printed, `break`
AttachOk ==
    /\ UNCHANGED <<gateVars, resolveVars>>
    /\ p_pc = "attach"
    /\ constructed' = constructed + 1
    /\ reg_calls' = reg_calls + 1
    /\ registered' = registered + 1
    /\ attached_note' = attempt
    /\ p_pc' = "done"
    /\ UNCHANGED <<endpoint, p_initial, p_max, start_result, attempt, p_backoff, checks,
                   connects, unreach_notes, fail_notes, error_notes, sleeps, last_sleep,
                   first_reach>>

\* mutant of ProberSleep: the backoff is doubled before the sleep
ProberSleepDoublesFirst ==
    /\ UNCHANGED <<gateVars, resolveVars>>
    /\ p_pc = "sleep"
    /\ sleeps' = sleeps + 1
    /\ last_sleep' = ProberNextBackoff(p_backoff, p_max)
    /\ p_backoff' = ProberNextBackoff(p_backoff, p_max)
    /\ p_pc' = "loop"
    /\ UNCHANGED <<endpoint, p_initial, p_max, start_result, attempt, checks, connects,
                   constructed, reg_calls, registered, unreach_notes, fail_notes,
                   error_notes, attached_note, first_reach>>

\* _probe: `_time.sleep(backoff)` and `backoff = min(backoff * 2.0, max_backoff)`
ProberSleep ==
    /\ UNCHANGED <<gateVars, resolveVars>>
    /\ p_pc = "sleep"
    /\ sleeps' = sleeps + 1
    /\ last_sleep' = p_backoff
    /\ p_backoff' = ProberNextBackoff(p_backoff, p_max)
    /\ p_pc' = "loop"
    /\ UNCHANGED <<endpoint, p_initial, p_max, start_result, attempt, checks, connects,
                   constructed, reg_calls, registered, unreach_notes, fail_notes,
                   error_notes, attached_note, first_reach>>

\* ------------------------------------------------------------ resolution

Signals == {"logs", "traces", "metrics"}
NoOverride == "None"

\* values of OTEL_EXPORTER_OTLP_PROTOCOL, character by character
ProtoUnset == <<>>
ProtoGrpc == <<"g", "r", "p", "c">>
ProtoGrpcUpper == <<"G", "R", "P", "C">>
ProtoGrpcPadded == <<" ", "g", "r", "p", "c", " ">>
ProtoHttp == <<"h", "t", "t", "p">>
ProtoHttpUpper == <<"H", "T", "T", "P">>
ProtoHttpProtobuf == <<"h", "t", "t", "p", "/", "p", "r", "o", "t", "o", "b", "u", "f">>
ProtoHttpJson == <<"h", "t", "t", "p", "/", "j", "s", "o", "n">>
ProtoHttps == <<"h", "t", "t", "p", "s">>
ProtoOther == <<"t", "c", "p">>
ProtoEnvs == {ProtoUnset, ProtoGrpc, ProtoGrpcUpper, ProtoGrpcPadded, ProtoHttp,
              ProtoHttpUpper, ProtoHttpProtobuf, ProtoHttpJson, ProtoHttps, ProtoOther}

\* the endpoint: unset, or a URL with scheme http, https, grpc, or no scheme
EndpointEnvs == {<<>>, <<"http">>, <<"https">>, <<"grpc">>, <<"">>}

\* exporter_cls arguments: None or a class of the caller's
Overrides == {NoOverride, "CustomExporter"}

\* which gRPC exporter modules import: all, none, or the log exporter alone
GrpcAvails == {Signals, {}, {"logs"}}

\* str.lower on the letters that occur
LowerChar(c) ==
    CASE c = "G" -> "g" [] c = "R" -> "r" [] c = "P" -> "p" [] c = "C" -> "c"
      [] c = "H" -> "h" [] c = "T" -> "t" [] OTHER -> c

\* `.lower()`
Lower(str) == [i \in DOMAIN str |-> LowerChar(str[i])]

\* `.strip()`
RECURSIVE Strip(_)
Strip(str) ==
    IF str = <<>> THEN str
    ELSE IF Head(str) = " " THEN Strip(Tail(str))
    ELSE IF str[Len(str)] = " " THEN Strip(SubSeq(str, 1, Len(str) - 1))
    ELSE str

\* `str.startswith(prefix)`
StartsWith(str, prefix) ==
    Len(str) >= Len(prefix) /\ SubSeq(str, 1, Len(prefix)) = prefix

\* `os.getenv("OTEL_EXPORTER_OTLP_PROTOCOL", "").lower().strip()`
ProtoOf(raw) == Strip(Lower(raw))

\* mutant of WantGrpc: the endpoint scheme is looked at before the protocol
WantGrpcSchemeFirst(proto, ep) ==
    IF ep # <<>> /\ ep[1] \in {"http", "https"} THEN FALSE
    ELSE IF proto = ProtoGrpc THEN TRUE
    ELSE IF StartsWith(proto, ProtoHttp) THEN FALSE
    ELSE TRUE

\* main.py 45-52, test.py 25-32: the want_grpc decision
WantGrpc(proto, ep) ==
    IF proto \in {ProtoGrpc} THEN TRUE
    ELSE IF StartsWith(proto, ProtoHttp)
              \/ proto \in {ProtoHttpProtobuf, ProtoHttpJson, ProtoHttp} THEN FALSE
    ELSE (IF ep # <<>> THEN ep[1] ELSE "None") \notin {"http", "https"}

\* mutant of ImportOrFallBack: no except block around the gRPC import
ImportOrRaise(want, importable) ==
    IF ~want THEN [cls |-> "http", warned |-> FALSE, raised |-> FALSE]
    ELSE IF importable THEN [cls |-> "grpc", warned |-> FALSE, raised |-> FALSE]
    ELSE [cls |-> "none", warned |-> FALSE, raised |-> TRUE]

\* main.py 54-73, test.py 35-63: the HTTP exporter, or the gRPC exporter by a
\* lazy import that falls back to HTTP with a line on stderr
ImportOrFallBack(want, importable) ==
    IF ~want THEN [cls |-> "http", warned |-> FALSE, raised |-> FALSE]
    ELSE IF importable THEN [cls |-> "grpc", warned |-> FALSE, raised |-> FALSE]
    ELSE [cls |-> "http", warned |-> TRUE, raised |-> FALSE]

\* the result of a resolution: the class per signal ("none" where none is
\* chosen), whether the fallback line was printed, whether an error was raised,
\* whether the providers were set up
Outcome(logs, traces, metrics, warned, raised, providers) ==
    [logs |-> logs, traces |-> traces, metrics |-> metrics,
     warned |-> warned, raised |-> raised, providers |-> providers]

\* mutant of MainResolve: the environment decides even when exporter_cls is given
MainResolveIgnoresOverride(ov, raw, ep, avail) ==
    LET c == ImportOrFallBack(WantGrpc(ProtoOf(raw), ep), "logs" \in avail)
    IN  Outcome(c.cls, "none", "none", c.warned, c.raised, FALSE)

\* SafeOTLPLogExporter.__init__, lines 42-76: the class of self._inner (logs only)
MainResolve(ov, raw, ep, avail) ==
    IF ov # NoOverride
      THEN Outcome(ov, "none", "none", FALSE, FALSE, FALSE)
      ELSE LET c == ImportOrFallBack(WantGrpc(ProtoOf(raw), ep), "logs" \in avail)
           IN  Outcome(c.cls, "none", "none", c.warned, c.raised, FALSE)

\* test.py: make_safe_exporter(signal, exporter_cls=ov) over EXPORTER_CLASSES
MakeSafeExporter(ov, cls) == IF ov = NoOverride THEN cls ELSE ov

\* test.py, module level (lines 20-72) and make_safe_exporter for each signal:
\* the three imports share one try block
TestResolve(ov, raw, ep, avail) ==
    LET c == ImportOrFallBack(WantGrpc(ProtoOf(raw), ep), avail = Signals)
        made == MakeSafeExporter(ov, c.cls)
    IN  Outcome(made, made, made, c.warned, c.raised, FALSE)

\* new.py, setup_otelproviders: nothing without an endpoint; protocol "grpc"
\* imports the gRPC exporters or raises RuntimeError; anything else is HTTP
NewResolve(ov, raw, ep, avail) ==
    IF ep = <<>> THEN Outcome("none", "none", "none", FALSE, FALSE, FALSE)
    ELSE IF ProtoOf(raw) = ProtoGrpc
      THEN IF avail = Signals
             THEN Outcome("grpc", "grpc", "grpc", FALSE, FALSE, TRUE)
             ELSE Outcome("none", "none", "none", FALSE, TRUE, FALSE)
      ELSE Outcome("http", "http", "http", FALSE, FALSE, TRUE)

Unresolved == Outcome("none", "none", "none", FALSE, FALSE, FALSE)

\* the inputs of a resolution; new.py takes no exporter_cls
ResolveInit(variants) ==
    /\ r_variant \in variants
    /\ override \in Overrides
    /\ r_variant = "new" => override = NoOverride
    /\ proto_env \in ProtoEnvs
    /\ endpoint_env \in EndpointEnvs
    /\ grpc_avail \in GrpcAvails
    /\ r_pc = "start"
    /\ resolved = Unresolved

\* no resolution is run
ResolveIdle ==
    /\ r_variant = "main"
    /\ override = NoOverride
    /\ proto_env = ProtoUnset
    /\ endpoint_env = <<"grpc">>
    /\ grpc_avail = Signals
    /\ r_pc = "start"
    /\ resolved = Unresolved

ResolveStep(which, outcome) ==
    /\ UNCHANGED <<gateVars, proberVars>>
    /\ r_pc = "start"
    /\ r_variant = which
    /\ resolved' = outcome
    /\ r_pc' = "done"
    /\ UNCHANGED <<r_variant, override, proto_env, endpoint_env, grpc_avail>>

\* main.py: SafeOTLPLogExporter(exporter_cls=override, endpoint=endpoint_env)
ResolveMain ==
    /\ r_variant = "main"
    /\ ResolveStep("main", MainResolve(override, proto_env, endpoint_env, grpc_avail))

\* test.py: the module is imported and make_safe_exporter called for each signal
ResolveTest ==
    /\ r_variant = "test"
    /\ ResolveStep("test", TestResolve(override, proto_env, endpoint_env, grpc_avail))

\* new.py: setup_otelproviders()
ResolveNew ==
    /\ r_variant = "new"
    /\ ResolveStep("new", NewResolve(override, proto_env, endpoint_env, grpc_avail))

\* ---------------------------------------------------------------- specs

\* configure_logging: `endpoint = "grpc://localhost:4318/v1/logs"`,
\* `_start_otlp_prober(provider, endpoint, initial_backoff=2.0, max_backoff=300.0)`
MainEndpoint == [scheme |-> "grpc", port |-> <<4318>>]
MainProberBackoff == <<2, 300>>

\* one gate used by NumThreads threads; the prober is not started
Init ==
    /\ GateInit(Backoffs)
    /\ ProberInit({MainEndpoint}, {MainProberBackoff})
    /\ ResolveIdle

Next ==
    \/ Tick(MaxTime)
    \/ \E t \in Threads : ExportStart(t)
    \/ \E t \in Threads : ExportGate(t)
    \/ \E t \in Threads : InnerExportRaises(t)
    \/ \E t \in Threads : InnerExportReturns(t)
    \/ \E t \in Threads : ExportFailLock(t)
    \/ \E t \in Threads : ExportFailUpdate(t)
    \/ \E t \in Threads : ExportSuccess(t)
    \/ \E t \in Threads : Shutdown(t)
    \/ \E t \in Threads : ForceFlush(t)
    \/ \E t \in Threads : ReportOnceSet(t)

Spec == Init /\ [][Next]_vars

\* one gate called by a single thread, so that no two calls overlap, over a
\* longer time
Caller == CHOOSE t \in Threads : \A u \in Threads : t <= u
SeqBackoffs == {<<1, 8>>, <<1, 3>>, <<2, 2>>, <<2, 5>>}

InitSeq ==
    /\ GateInit(SeqBackoffs)
    /\ ProberInit({MainEndpoint}, {MainProberBackoff})
    /\ ResolveIdle

NextSeq ==
    \/ Tick(SeqMaxTime)
    \/ ExportStart(Caller)
    \/ ExportGate(Caller)
    \/ InnerExportRaises(Caller)
    \/ InnerExportReturns(Caller)
    \/ ExportFailLock(Caller)
    \/ ExportFailUpdate(Caller)
    \/ ExportSuccess(Caller)
    \/ Shutdown(Caller)
    \/ ForceFlush(Caller)
    \/ ReportOnceSet(Caller)

SpecSeq == InitSeq /\ [][NextSeq]_vars

\* the prober alone; the gate it attaches is not exercised
InitProber ==
    /\ GateInit({<<1, 300>>})
    /\ variant = "main"
    /\ inner_attrs = {"shutdown", "force_flush"}
    /\ ProberInit(Endpoints, ProberBackoffs)
    /\ ResolveIdle

NextProber ==
    \/ StartProber
    \/ Probe
    \/ \E f \in AttachFailures : AttachRaises(f)
    \/ AttachOk
    \/ ProberSleep

SpecProber == InitProber /\ [][NextProber]_vars

\* the prober as a running daemon thread: its next step is eventually taken
SpecProberLive == InitProber /\ [][NextProber]_vars /\ WF_vars(NextProber)

\* the three resolutions alone; gate and prober are not exercised
InitResolve ==
    /\ GateInit({<<1, 300>>})
    /\ variant = "main"
    /\ inner_attrs = {"shutdown", "force_flush"}
    /\ ProberInit({MainEndpoint}, {MainProberBackoff})
    /\ ResolveInit({"main", "test", "new"})

NextResolve ==
    \/ ResolveMain
    \/ ResolveTest
    \/ ResolveNew

SpecResolve == InitResolve /\ [][NextResolve]_vars

\* a permanently failing inner exporter, export called again and again from
\* two threads, time passing: each caller's next step is eventually taken
Callers == {t \in Threads : \A u \in Threads : u < t => u = Caller}

InitLive ==
    /\ GateInit(Backoffs)
    /\ ProberInit({MainEndpoint}, {MainProberBackoff})
    /\ ResolveIdle

ExportFailing(t) ==
    \/ ExportStart(t)
    \/ ExportGate(t)
    \/ InnerExportRaises(t)
    \/ ExportFailLock(t)
    \/ ExportFailUpdate(t)

NextLive ==
    \/ Tick(LiveMaxTime)
    \/ \E t \in Callers : ExportFailing(t)

SpecLive ==
    /\ InitLive
    /\ [][NextLive]_vars
    /\ WF_vars(Tick(LiveMaxTime))
    /\ \A t \in Callers : WF_vars(ExportFailing(t))

\* ---------------------------------------------------------------- claims

\* C1 (as stated): once a failure has set nextEligibleTime to T, no export call
\* whose start time is earlier than T invokes the inner exporter, also when
\* calls run concurrently.
C1_SuppressionUnderConcurrency ==
    [][\A t \in Threads :
         (pc[t] = "call" /\ pc'[t] # "call") => now[t] >= next_try]_vars

\* C1 (amended): an export call whose gate check finds its start time earlier
\* than the nextEligibleTime then in force returns Suppressed (None) at once and
\* never reaches the inner exporter; a call that passed its gate check before
\* the failure was recorded may still invoke it.
C1_GateSuppresses ==
    [][\A t \in Threads :
         (pc[t] = "gate" /\ now[t] < next_try /\ pc'[t] # "gate")
           => (pc'[t] = "idle" /\ last' = [value |-> "None", branch |-> "suppressed"])]_vars

C1_Witness ==
    failRun >= 1 /\ clock < next_try /\ last.branch = "suppressed"

\* C2: a successful export resets backoffCurrent to backoffInitial and
\* nextEligibleTime to zero, whatever failures preceded it, in main.py and in
\* test.py.
C2_SuccessResets ==
    [][\A t \in Threads :
         (pc[t] # "idle" /\ pc'[t] = "idle" /\ last'.branch = "ok")
           => (backoff' = backoff_initial /\ next_try' = 0)]_vars

\* C3 (as stated): after the n-th consecutive failure backoffCurrent equals
\* min(initial * 2^(n-1), max).
C3_BackoffAfterNthFailure ==
    failRun >= 1 => backoff = Min(backoff_initial * Pow2(failRun - 1), max_backoff)

\* C3 (amended): after the n-th consecutive failure backoffCurrent equals
\* min(initial * 2^n, max), and backoffCurrent never decreases during the run.
C3_BackoffAfterNthFailureAmended ==
    [][failRun' = failRun + 1
         => /\ backoff' = Min(backoff_initial * Pow2(failRun'), max_backoff)
            /\ backoff' >= backoff]_vars

C3_Witness ==
    backoff_initial = 1 /\ max_backoff = 8 /\ failRun = 4 /\ backoff = 8

\* C4: the suppression window set by the n-th consecutive failure
\* (nextEligibleTime minus the time of the failure) is min(initial * 2^(n-1), max),
\* and it is the delay the retry notice names; initial=1, max=8 give 1, 2, 4, 8, 8.
C4_WindowOfNthFailure ==
    [][failRun' = failRun + 1
         => /\ next_try' - clock = Min(backoff_initial * Pow2(failRun), max_backoff)
            /\ retry_note' = next_try' - clock]_vars

C4_Witness ==
    /\ backoff_initial = 1 /\ max_backoff = 8
    /\ failRun = 5 /\ retry_note = 8 /\ next_try = clock + 8
    /\ last.branch = "failed"

\* C5: the one-time failure report is printed at most once per instance, over
\* any interleaving of export, shutdown and force_flush.
C5_ReportAtMostOnce == reports <= 1

\* C6: an export call whose inner export raises never raises to its caller:
\* it returns None from the except block after setting nextEligibleTime and
\* doubling backoffCurrent; a call returns a result only when the inner
\* exporter returned one.
C6_ExportNeverRaises ==
    [][\A t \in Threads :
         /\ (pc[t] = "call" /\ pc'[t] = "idle")
              => last' = [value |-> "result", branch |-> "ok"]
         /\ (pc[t] = "call" /\ pc'[t] # "call" /\ pc'[t] # "idle")
              => /\ pc'[t] \in {"fail", "succ"}
                 /\ UNCHANGED <<backoff, next_try, last>>
         /\ (pc[t] \in {"fail", "fail_upd"} /\ pc'[t] # pc[t])
              => \/ pc'[t] = "fail_upd" /\ UNCHANGED <<backoff, next_try, last>>
                 \/ /\ pc'[t] = "idle"
                    /\ last' = [value |-> "None", branch |-> "failed"]
                    /\ next_try' = clock + backoff
                    /\ backoff' = Min(backoff * 2, max_backoff)]_vars

C6_Witness ==
    /\ last = [value |-> "None", branch |-> "failed"]
    /\ failRun >= 1 /\ next_try > clock
    /\ \A t \in Threads : pc[t] = "idle"

\* C7: backoffInitial <= backoffCurrent <= backoffMax in every state, for a
\* gate constructed with initialBackoff > 0 and maxBackoff >= initialBackoff.
C7_BackoffWithinBounds ==
    backoff_initial <= backoff /\ backoff <= max_backoff

C7_Witness ==
    failRun >= 2 /\ backoff = max_backoff /\ backoff > backoff_initial

\* C8 (as stated): when the prober has terminated, the endpoint having first
\* been reachable on probe n, exactly one gate was constructed and one
\* registration made, after exactly n checks, n-1 not-reachable lines and an
\* "attached after n attempts" line.
C8_AttachOnFirstReach ==
    p_pc = "done" =>
        /\ constructed = 1 /\ reg_calls = 1 /\ registered = 1
        /\ checks = first_reach
        /\ unreach_notes = first_reach - 1
        /\ attached_note = first_reach

\* C8 (amended): the same, provided constructing and registering the exporter
\* did not raise on that probe: from the first reachable check on the prober
\* checks no more, and it ends with one gate, one registration, n checks, n-1
\* not-reachable lines and "attached after n attempts"; once terminated it
\* takes no further step.
C8_AttachOnFirstReachAmended ==
    /\ (first_reach > 0 /\ fail_notes = 0) =>
          /\ p_pc \in {"attach", "done"}
          /\ checks = first_reach /\ attempt = first_reach
          /\ unreach_notes = first_reach - 1 /\ error_notes = 0
          /\ p_pc = "attach" => (constructed = 0 /\ reg_calls = 0 /\ attached_note = 0)
          /\ p_pc = "done" => /\ constructed = 1 /\ reg_calls = 1 /\ registered = 1
                              /\ attached_note = first_reach
    /\ p_pc = "done" => ~ENABLED NextProber

C8_Witness ==
    /\ p_pc = "done" /\ first_reach = 5 /\ fail_notes = 0
    /\ checks = 5 /\ unreach_notes = 4 /\ attached_note = 5
    /\ constructed = 1 /\ registered = 1

\* C9 (as stated): provider.add_log_record_processor is invoked at most once
\* in the life of a prober, also when construction or registration raises.
C9_HookInvokedAtMostOnce == reg_calls <= 1

\* C9 (amended): provider.add_log_record_processor returns normally at most
\* once, and the prober has then terminated; it is invoked again only after an
\* invocation that raised.
C9_RegisteredAtMostOnce ==
    /\ registered <= 1
    /\ registered = 1 <=> p_pc = "done"
    /\ reg_calls <= registered + fail_notes

C9_Witness ==
    registered = 1 /\ reg_calls = 2 /\ fail_notes = 1

\* the endpoint has no explicit port and a scheme other than http/https
NoUsablePort ==
    endpoint.port = <<>> /\ endpoint.scheme \notin {"http", "https"}

\* C10 (as stated): with no usable port, starting the prober surfaces the
\* configuration error to its caller.
C10_PortErrorSurfacedAtStart ==
    (NoUsablePort /\ start_result # "not_called") => start_result = "raised"

\* C10 (amended): with no usable port, _start_otlp_prober still returns
\* normally; the condition is handled inside the background loop, where every
\* reachability check answers "not reachable" without a connection attempt.
C10_PortErrorHandledInLoop ==
    NoUsablePort =>
        /\ start_result \in {"not_called", "returned"}
        /\ start_result = "returned" <=> p_pc # "unstarted"
        /\ connects = 0
        /\ unreach_notes = checks
        /\ error_notes = 0

C10_Witness ==
    NoUsablePort /\ start_result = "returned" /\ checks >= 2 /\ unreach_notes = checks

\* C11: shutdown and force_flush never raise to their caller: when the
\* delegate raises, shutdown returns None and force_flush returns False; when
\* the inner exporter has no such operation, shutdown returns None and
\* force_flush returns True; otherwise what the delegate returned is returned.
C11_ShutdownFlushNeverRaise ==
    /\ last.value # "raise"
    /\ last.branch = "sd_caught" => (last.value = "None" /\ "shutdown" \in inner_attrs)
    /\ last.branch = "ff_caught" => (last.value = "False" /\ "force_flush" \in inner_attrs)
    /\ last.branch = "sd_absent" => (last.value = "None" /\ "shutdown" \notin inner_attrs)
    /\ last.branch = "ff_absent" => (last.value = "True" /\ "force_flush" \notin inner_attrs)
    /\ last.branch = "sd_delegated" => (last.value = "None" /\ "shutdown" \in inner_attrs)
    /\ last.branch = "ff_delegated"
         => (last.value \in {"True", "False"} /\ "force_flush" \in inner_attrs)
    /\ \A t \in Threads : pc[t] \in {"sd_rep", "ff_rep"} => InnerOp(IF pc[t] = "sd_rep" THEN "sd" ELSE "ff") \in inner_attrs

C11_Witness ==
    /\ last = [value |-> "False", branch |-> "ff_caught"]
    /\ reports >= 1
    /\ \A t \in Threads : pc[t] = "idle"

\* C12: with an explicit exporter class the resolved transport is exactly that
\* class, for every value of the protocol setting and of the endpoint
C12_OverrideWins ==
    (r_pc = "done" /\ override # NoOverride) =>
        /\ resolved.logs = override
        /\ r_variant = "test" => (resolved.traces = override /\ resolved.metrics = override)
        /\ ~resolved.raised

C12_Witness ==
    /\ r_pc = "done"
    /\ r_variant = "main"
    /\ override = "CustomExporter"
    /\ proto_env = ProtoGrpcUpper
    /\ endpoint_env = <<"http">>
    /\ resolved.logs = "CustomExporter"

\* the protocol settings that say gRPC, and those the decision order lists as HTTP
SaysGrpc == {ProtoGrpc, ProtoGrpcUpper, ProtoGrpcPadded}
ListedHttp == {ProtoHttp, ProtoHttpUpper, ProtoHttpProtobuf, ProtoHttpJson}
HttpScheme == endpoint_env # <<>> /\ endpoint_env[1] \in {"http", "https"}

\* C13: without an override, with the gRPC exporters importable: 'grpc' selects
\* gRPC; else 'http', 'http/protobuf', 'http/json' select HTTP; else the
\* endpoint scheme decides, http/https giving HTTP and anything else gRPC
C13_DecisionOrder ==
    (r_pc = "done" /\ override = NoOverride /\ grpc_avail = Signals) =>
        resolved.logs = IF proto_env \in SaysGrpc THEN "grpc"
                        ELSE IF proto_env \in ListedHttp THEN "http"
                        ELSE IF HttpScheme THEN "http" ELSE "grpc"

\* C13 amended: in main.py and test.py every protocol setting that begins with
\* "http" selects HTTP and the endpoint scheme decides only after that; new.py
\* sets nothing up without an endpoint and never looks at the endpoint scheme
C13_DecisionOrderAmended ==
    (r_pc = "done" /\ override = NoOverride /\ grpc_avail = Signals) =>
        IF r_variant \in {"main", "test"}
          THEN resolved.logs = IF proto_env \in SaysGrpc THEN "grpc"
                               ELSE IF proto_env \in ListedHttp \cup {ProtoHttps} THEN "http"
                               ELSE IF HttpScheme THEN "http" ELSE "grpc"
          ELSE IF endpoint_env = <<>>
                 THEN resolved.logs = "none" /\ ~resolved.providers
                 ELSE resolved.logs = IF proto_env \in SaysGrpc THEN "grpc" ELSE "http"

C13_Witness ==
    /\ r_pc = "done"
    /\ r_variant = "new"
    /\ proto_env = ProtoUnset
    /\ endpoint_env = <<"grpc">>
    /\ grpc_avail = Signals
    /\ resolved.logs = "http"

\* gRPC is what the settings select: by the protocol, or (main.py, test.py) by
\* the endpoint scheme when the protocol says nothing
GrpcSelected ==
    /\ override = NoOverride
    /\ IF r_variant = "new"
         THEN endpoint_env # <<>> /\ proto_env \in SaysGrpc
         ELSE \/ proto_env \in SaysGrpc
              \/ proto_env \in {ProtoUnset, ProtoOther} /\ ~HttpScheme

\* the gRPC exporters the variant imports are not all importable
GrpcUnavailable ==
    IF r_variant = "main" THEN "logs" \notin grpc_avail ELSE grpc_avail # Signals

\* C14: gRPC selected but unavailable: main.py and test.py print a warning and
\* use HTTP for every signal they export, raising nothing; new.py raises to the
\* caller, substitutes nothing and sets up no provider
C14_UnavailableGrpc ==
    (r_pc = "done" /\ GrpcSelected /\ GrpcUnavailable) =>
        CASE r_variant = "main" ->
               resolved.warned /\ ~resolved.raised /\ resolved.logs = "http"
          [] r_variant = "test" ->
               /\ resolved.warned /\ ~resolved.raised
               /\ \A sig \in Signals : resolved[sig] = "http"
          [] r_variant = "new" ->
               /\ resolved.raised /\ ~resolved.warned /\ ~resolved.providers
               /\ \A sig \in Signals : resolved[sig] = "none"

C14_Witness ==
    /\ r_pc = "done"
    /\ r_variant = "test"
    /\ override = NoOverride
    /\ proto_env = ProtoGrpc
    /\ grpc_avail = {"logs"}
    /\ resolved.warned
    /\ resolved.logs = "http"
    /\ resolved.metrics = "http"

\* C15: a suppressed export call returns without calling the inner exporter and
\* leaves backoffCurrent, nextEligibleTime, hasReportedFailure and the
\* diagnostics as they were; backoffCurrent grows only in the failure update of
\* a call that reached the inner exporter, by one doubling capped at the maximum
C15_SuppressedChangesNothing ==
    [][/\ \A t \in Threads :
            (pc[t] = "gate" /\ pc'[t] # "gate" /\ now[t] < next_try)
              => /\ pc'[t] = "idle"
                 /\ UNCHANGED <<backoff, next_try, reported, reports, retry_note,
                                failRun, lock>>
       /\ backoff' > backoff
            => /\ \E t \in Threads : pc[t] = "fail_upd" /\ pc'[t] = "idle"
               /\ failRun' = failRun + 1
               /\ backoff' = Min(2 * backoff, max_backoff)]_vars

C15_Witness ==
    /\ last = [value |-> "None", branch |-> "suppressed"]
    /\ failRun = 1 /\ reports = 1
    /\ backoff = Min(2 * backoff_initial, max_backoff)
    /\ backoff > backoff_initial
    /\ next_try > clock

\* C16: the clock never going back, nextEligibleTime never decreases from one
\* state to the next, except that a successful export sets it to zero, under
\* every interleaving of the threads
C16_NextTryMonotone ==
    [][\/ next_try' >= next_try
       \/ /\ next_try' = 0
          /\ \E t \in Threads : pc[t] = "succ" /\ pc'[t] = "idle"]_vars

C16_Witness ==
    /\ variant = "main"
    /\ next_try = 0 /\ failRun = 0 /\ reports >= 1
    /\ last = [value |-> "result", branch |-> "ok"]
    /\ \E t \in Threads : pc[t] = "fail"

\* C17: concurrent failing exports update the gate one at a time: the thread
\* in the failure update is the one holding the mutex, every failure since the
\* last reset has doubled backoffCurrent exactly once (none lost), and the
\* backoff read by the latest failure is the value left by the one before it
C17_FailuresSerialized ==
    /\ \A t \in Threads : pc[t] = "fail_upd" <=> lock = t
    /\ backoff = Min(backoff_initial * Pow2(failRun), max_backoff)
    /\ failRun >= 1 => retry_note = Min(backoff_initial * Pow2(failRun - 1), max_backoff)

C17_Witness ==
    /\ clock = 0 /\ failRun = 2
    /\ backoff_initial = 1 /\ retry_note = 2 /\ backoff = 3
    /\ \A t \in Threads : pc[t] = "idle"

\* C18: no thread holds the mutex while it is inside inner.export; the mutex is
\* held only by a thread in its failure update, which can always finish and
\* release it, so a gate check waits for no inner export and every export call
\* in progress can take its next step whenever the mutex is free
C18_LockNotHeldOverInnerExport ==
    /\ \A t \in Threads : pc[t] = "call" => lock # t
    /\ lock # NoThread => (pc[lock] = "fail_upd" /\ ENABLED ExportFailUpdate(lock))
    /\ \A t \in Threads :
         /\ (pc[t] = "gate" /\ lock = NoThread) => ENABLED ExportGate(t)
         /\ (pc[t] = "fail" /\ lock = NoThread) => ENABLED ExportFailLock(t)
         /\ (pc[t] = "succ" /\ lock = NoThread) => ENABLED ExportSuccess(t)
         /\ pc[t] = "call" => ENABLED (InnerExportRaises(t) \/ InnerExportReturns(t))

C18_Witness ==
    \E t, u \in Threads :
        /\ t # u
        /\ pc[t] = "call" /\ pc[u] = "fail_upd" /\ lock = u
        /\ failRun >= 1

\* C19: the gate never shuts for good.  A call that finds now >= nextEligibleTime
\* goes on to the inner exporter; nextEligibleTime is never more than backoffMax
\* ahead of the clock; and with the inner exporter always failing and calls
\* going on, the n-th failure is always followed by another attempt, unless the
\* clock has stopped at its last value inside the window of the n-th failure
C19_GateReopens ==
    /\ [][\A t \in Threads :
            (pc[t] = "gate" /\ pc'[t] # "gate" /\ now[t] >= next_try)
              => pc'[t] = "call"]_vars
    /\ [](next_try <= clock + max_backoff)
    /\ \A n \in 1..LiveMaxTime :
         (failRun = n) ~> (\/ failRun > n
                           \/ \E t \in Threads : pc[t] = "call"
                           \/ clock = LiveMaxTime /\ next_try > clock)

C19_Witness ==
    /\ failRun = 2 /\ clock < LiveMaxTime
    /\ next_try <= clock
    /\ \E t \in Threads : pc[t] = "call" /\ now[t] >= next_try

\* C20: a step of shutdown or force_flush (delegate returns, is absent, or
\* raises and is reported) leaves backoffCurrent and nextEligibleTime as they
\* were, and the gate check applies the same rule in every state
C20_ShutdownKeepsGate ==
    [][/\ (\/ pc' = pc /\ clock' = clock
           \/ \E t \in Threads : /\ pc'[t] # pc[t]
                                 /\ {pc[t], pc'[t]} \cap {"sd_rep", "ff_rep"} # {})
            => UNCHANGED <<backoff, next_try>>
       /\ \A t \in Threads :
            (pc[t] = "gate" /\ pc'[t] # "gate")
              => (pc'[t] = "idle" <=> now[t] < next_try)]_vars

C20_Witness ==
    /\ last = [value |-> "None", branch |-> "sd_caught"]
    /\ failRun >= 1 /\ next_try > clock /\ backoff > backoff_initial
    /\ \A t \in Threads : pc[t] = "idle"

\* C21: every probe that does not attach (not reachable, prober error, failed
\* attach) is followed by one sleep of the current backoff, which is then
\* doubled up to the maximum: the k-th sleep lasts min(initial * 2^(k-1), max)
\* and the backoff never exceeds the maximum
C21_ProberBackoffLaw ==
    /\ sleeps >= 1 => last_sleep = Min(p_initial * Pow2(sleeps - 1), p_max)
    /\ p_pc # "unstarted" =>
         /\ p_backoff = Min(p_initial * Pow2(sleeps), p_max)
         /\ p_backoff <= p_max
    /\ p_pc = "loop" => sleeps = attempt
    /\ p_pc \in {"sleep", "attach", "done"} => sleeps = attempt - 1
    /\ p_pc \in {"loop", "done"} => sleeps = unreach_notes + error_notes + fail_notes

C21_Witness ==
    /\ p_initial = 1 /\ p_max = 4
    /\ sleeps = 4 /\ last_sleep = 4 /\ p_backoff = 4
    /\ unreach_notes >= 1 /\ fail_notes >= 1

\* C22: when the endpoint is reachable and building or registering the
\* exporter raises, the prober prints the failure, prints no attached line,
\* sleeps and probes again; it ends only in the step in which a registration
\* returned, and nothing but that stops it from probing
C22_AttachFailureTransient ==
    /\ [][/\ (p_pc = "attach" /\ registered' = registered)
               => /\ fail_notes' = fail_notes + 1
                  /\ p_pc' = "sleep"
                  /\ attached_note' = attached_note
          /\ (p_pc' = "done" /\ p_pc # "done")
               => (p_pc = "attach" /\ registered' = registered + 1)
          /\ p_pc = "sleep" => p_pc' = "loop"]_vars
    /\ [](p_pc = "done" <=> attached_note > 0)
    /\ [](p_pc = "sleep" => ENABLED ProberSleep)
    /\ []((p_pc = "loop" /\ attempt < MaxAttempts) => ENABLED Probe)

C22_Witness ==
    /\ fail_notes = 2 /\ registered = 0 /\ attached_note = 0
    /\ p_pc = "attach" /\ attempt = 3

\* C23: with no port derivable every check answers not reachable without a
\* connection attempt; no exporter is built or registered, nothing is raised,
\* the prober never ends and, once started, goes on to its next attempt after
\* every attempt, sleeping min(initial * 2^(k-1), max) after the k-th
C23_NoPortRetriedForever ==
    /\ [](NoUsablePort =>
            /\ connects = 0 /\ unreach_notes = checks /\ checks = attempt
            /\ constructed = 0 /\ reg_calls = 0 /\ registered = 0
            /\ error_notes = 0 /\ fail_notes = 0 /\ attached_note = 0
            /\ start_result # "raised"
            /\ p_pc \in {"unstarted", "loop", "sleep"}
            /\ sleeps >= 1 => last_sleep = Min(p_initial * Pow2(sleeps - 1), p_max))
    /\ \A k \in 0..(MaxAttempts - 1) :
         (NoUsablePort /\ p_pc # "unstarted" /\ attempt = k) ~> (attempt = k + 1)
    /\ \A k \in 1..MaxAttempts :
         (NoUsablePort /\ attempt = k) ~> (sleeps = k /\ p_pc = "loop")

C23_Witness ==
    /\ NoUsablePort /\ endpoint.scheme = "grpc"
    /\ attempt = MaxAttempts /\ sleeps = MaxAttempts /\ p_pc = "loop"
    /\ unreach_notes = MaxAttempts /\ connects = 0

====
